---- MODULE Spec2Model ----
(***************************************************************************)
(* Model of the call-analysis code of the repository:                      *)
(*   - CallAnalyzer (src/Q3/call_analysis_viz.py): timeline construction,  *)
(*     detect_overlaps, detect_silences, calculate_metrics;                *)
(*   - PatternMatcher.detect_privacy_violation (src/final/main.py).        *)
(*   - the batching loop of privacy_detection_llm and                      *)
(*     profanity_detection_llm (src/final/main.py).                        *)
(* Times are integers 0..MaxTime (seconds on a grid); sums and differences *)
(* are exact.  A percentage x / total * 100 is kept as the exact fraction  *)
(* (x * 100) / total, or as the IEEE value numpy returns when total = 0.   *)
(***************************************************************************)
EXTENDS Integers, Sequences, FiniteSets, TLC

\* ------------------------------------------------------------------ bounds
MaxSegs == 3        \* longest turn-taking dialogue
MaxMixedSegs == 2   \* longest call with arbitrary speakers and unvalidated times
MaxTime == 2        \* times are 0..MaxTime
MaxUtts == 3        \* longest transcript given to the pattern matcher
MaxConvs == 11      \* most conversations in the zip file given to the LLM detector
MaxRateLimits == 2  \* most RateLimitError answers during one run of the batching loop

\* ------------------------------------------------------------------ state
VARIABLES
    conversation_data,   \* CallAnalyzer.conversation_data: the input segments
    timeline_data,       \* CallAnalyzer.timeline_data: the DataFrame rows
    init_raised,         \* what CallAnalyzer.__init__ raised ("none": it returned)
    argsort,             \* the order in which this build's sort_values("start_time")
                         \* returns the rows of the timeline (any order sorted by start)
    returned,            \* per operation: the latest outcome handed to the caller
    conversation,        \* the utterances given to detect_privacy_violation
    privacy,             \* the latest outcome of detect_privacy_violation
    perm_data,           \* a second CallAnalyzer: its conversation_data, the same
                         \* segments in another order
    perm_argsort,        \* the order sort_values returns for the second timeline
    perm_returned,       \* the latest outcome of its calculate_metrics
    conversation_ids,    \* privacy_detection_llm: the ids of the loaded conversations
    batch_input,         \* one prompt per conversation id, in the same order
    outputs,             \* the LLM outputs collected so far
    batch_start,         \* the loop variable i of the batching loop
    last_outcome,        \* how the latest structured_llm.batch call ended
    rate_limited,        \* how many RateLimitError answers the API has given
    pc,                  \* where privacy_detection_llm is
    privacy_violated     \* the dict privacy_violated, as its (id, value) items

analyzerVars == <<conversation_data, timeline_data, init_raised, argsort, returned>>
privacyVars == <<conversation, privacy>>
permVars == <<perm_data, perm_argsort, perm_returned>>
llmVars == <<conversation_ids, batch_input, outputs, batch_start, last_outcome,
             rate_limited, pc, privacy_violated>>
vars == <<analyzerVars, privacyVars, permVars, llmVars>>

Speakers == {"Agent", "Customer"}
Times == 0..MaxTime

\* One record of the JSON transcript (speaker, text, stime, etime).
Segment == [speaker : Speakers, text : {"utt"}, stime : Times, etime : Times]

ValidSegment == {s \in Segment : s.etime >= s.stime}

\* Turn-taking dialogues: valid segments, the two speakers alternate.
Dialogues ==
    {c \in UNION {[1..n -> ValidSegment] : n \in 0..MaxSegs} :
        \A i \in 1..(Len(c) - 1) : c[i].speaker # c[i + 1].speaker}

\* Arbitrary records as the loader passes them on: any speakers, and
\* nothing checks etime >= stime.
MixedCalls == UNION {[1..n -> Segment] : n \in 0..MaxMixedSegs}

Calls == Dialogues \cup MixedCalls

\* A valid call: non-empty, every segment with end >= start.
ValidCall(conv) ==
    /\ Len(conv) > 0
    /\ \A i \in 1..Len(conv) : conv[i].etime >= conv[i].stime

Ops == {"detect_overlaps", "detect_silences", "calculate_metrics"}

Max2(a, b) == IF a >= b THEN a ELSE b
Min2(a, b) == IF a <= b THEN a ELSE b

RECURSIVE SumSeq(_)
SumSeq(s) == IF Len(s) = 0 THEN 0 ELSE Head(s) + SumSeq(Tail(s))

\* Series.max() / Series.min() of a non-empty column
ColMax(s) == CHOOSE m \in {s[i] : i \in 1..Len(s)} : \A i \in 1..Len(s) : s[i] <= m
ColMin(s) == CHOOSE m \in {s[i] : i \in 1..Len(s)} : \A i \in 1..Len(s) : m <= s[i]

\* -------------------------------------------------------- construction
create_timeline(conv) ==
    [i \in 1..Len(conv) |->
        [speaker    |-> conv[i].speaker,
         text       |-> conv[i].text,
         start_time |-> conv[i].stime,
         end_time   |-> conv[i].etime,
         duration   |-> conv[i].etime - conv[i].stime]]

\* __init__ stores the data and builds the timeline; it validates nothing.
init_outcome(conv) == "none"

\* The permutations of the row positions 1..n.
RowOrders ==
    [n \in 0..Max2(MaxSegs, MaxMixedSegs) |->
        {p \in [1..n -> 1..n] : \A i, j \in 1..n : i # j => p[i] # p[j]}]

\* The orders a sort by start_time may return: every permutation of the row
\* positions that is ascending in start_time (the default sort kind is not
\* stable, so rows with equal start_time may come in any order).
SortingOrders(df) ==
    {p \in RowOrders[Len(df)] :
        \A k \in 1..(Len(df) - 1) : df[p[k]].start_time <= df[p[k + 1]].start_time}

\* Mutant: the frame is not sorted, the rows stay in input order.
sort_values_unsorted(df, order) == df

\* df.sort_values("start_time"): a new frame, the rows in the order the
\* build's sort returns for this frame.
sort_values(df, order) == [k \in 1..Len(df) |-> df[order[k]]]

\* Mutant: the sort is done in place (inplace=True).
frame_sorted_in_place(df, order) == [k \in 1..Len(df) |-> df[order[k]]]

\* What the stored frame is after sort_values (inplace=False): untouched.
frame_after_sort(df, order) == df

\* ------------------------------------------------------------ outcomes
NotCalled == [status |-> "not_called", value |-> <<>>]
Raised(e) == [status |-> e, value |-> <<>>]
Returned(v) == [status |-> "returned", value |-> v]

SameOutcome(a, b) == a.status = b.status /\ a.value = b.value

\* ------------------------------------------------------ detect_overlaps
\* line 49: current ends after next starts
overlap_guard(current, next) == current.end_time > next.start_time

\* Mutant: the earlier of the two starts is taken.
overlap_start_min(current, next) == Min2(current.start_time, next.start_time)

overlap_start_of(current, next) == Max2(current.start_time, next.start_time)
\* Mutant: the later of the two ends is taken.
overlap_end_max(current, next) == Max2(current.end_time, next.end_time)
overlap_end_of(current, next) == Min2(current.end_time, next.end_time)

\* Mutant: the overlap runs to the end of the current segment.
overlap_of_current_end(current, next) ==
    [start_time |-> Max2(current.start_time, next.start_time),
     end_time   |-> current.end_time,
     duration   |-> current.end_time - Max2(current.start_time, next.start_time),
     speakers   |-> <<current.speaker, next.speaker>>]

\* lines 50-62: the dict appended for a pair (current, next)
overlap_of(current, next) ==
    [start_time |-> overlap_start_of(current, next),
     end_time   |-> overlap_end_of(current, next),
     duration   |-> overlap_end_of(current, next) - overlap_start_of(current, next),
     speakers   |-> <<current.speaker, next.speaker>>]

\* Mutant: a zero duration is appended too (>= 0).
overlap_kept_zero(current, next) ==
    Min2(current.end_time, next.end_time)
        - Max2(current.start_time, next.start_time) >= 0

\* line 54: only a strictly positive duration is appended
overlap_kept(current, next) == overlap_of(current, next).duration > 0

\* lines 44-54: the positions i of the sorted frame whose pair (i, i+1) is appended
overlap_positions(df) ==
    SelectSeq([k \in 1..(Len(df) - 1) |-> k],
              LAMBDA k : overlap_guard(df[k], df[k + 1]) /\ overlap_kept(df[k], df[k + 1]))

overlaps_list(tl, order) ==
    LET df == sort_values(tl, order)
        ks == overlap_positions(df)
    IN  [n \in 1..Len(ks) |-> overlap_of(df[ks[n]], df[ks[n] + 1])]

\* The frame of an empty conversation has no columns: sort_values("start_time")
\* raises KeyError.
detect_overlaps(tl, order) ==
    IF Len(tl) = 0 THEN Raised("KeyError") ELSE Returned(overlaps_list(tl, order))

\* For each overlap of overlaps_list, in order: the positions in the input
\* (conversation_data) of the two segments (current, next) that produced it.
overlap_pairs(tl, order) ==
    LET ks == overlap_positions(sort_values(tl, order))
    IN  [n \in 1..Len(ks) |-> <<order[ks[n]], order[ks[n] + 1]>>]

\* ------------------------------------------------------ detect_silences
\* line 78: one (start, end) tuple per row of the sorted frame
speech_intervals(df) == [k \in 1..Len(df) |-> <<df[k].start_time, df[k].end_time>>]

\* tuple order of list.sort(): by start, then by end
TupleLeq(a, b) == a[1] < b[1] \/ (a[1] = b[1] /\ a[2] <= b[2])

RECURSIVE InsertTuple(_, _)
InsertTuple(sorted, t) ==
    IF Len(sorted) = 0 THEN <<t>>
    ELSE IF TupleLeq(t, Head(sorted)) THEN <<t>> \o sorted
    ELSE <<Head(sorted)>> \o InsertTuple(Tail(sorted), t)

RECURSIVE list_sort(_)
list_sort(s) ==
    IF Len(s) = 0 THEN <<>>
    ELSE InsertTuple(list_sort(SubSeq(s, 1, Len(s) - 1)), s[Len(s)])

\* Mutant: only an interval that starts before the running end is absorbed.
merge_absorbs_strict(last, start) == start < last[2]

\* line 86: the interval touches or overlaps the running merged interval
merge_absorbs(last, start) == start <= last[2]

\* lines 86-94: one iteration of the merge loop
merge_step(merged, iv) ==
    IF Len(merged) > 0 /\ merge_absorbs(merged[Len(merged)], iv[1])
    THEN [merged EXCEPT ![Len(merged)] = <<@[1], Max2(@[2], iv[2])>>]
    ELSE Append(merged, iv)

RECURSIVE merge_loop(_, _)
merge_loop(merged, rest) ==
    IF Len(rest) = 0 THEN merged
    ELSE merge_loop(merge_step(merged, Head(rest)), Tail(rest))

\* lines 69-94: the merged speech intervals detect_silences builds
merged_intervals(tl, order) ==
    merge_loop(<<>>, list_sort(speech_intervals(sort_values(tl, order))))

\* Mutant: the call is taken to start at time 0.
call_start_zero(tl) == 0

call_start_of(tl) == ColMin([i \in 1..Len(tl) |-> tl[i].start_time])
call_end_of(tl) == ColMax([i \in 1..Len(tl) |-> tl[i].end_time])

silence_of(s, e) == [start_time |-> s, end_time |-> e, duration |-> e - s]

\* lines 98-105
leading_silence(merged, call_start) ==
    IF Len(merged) > 0 /\ merged[1][1] > call_start
    THEN <<silence_of(call_start, merged[1][1])>> ELSE <<>>

\* Mutant: the loop over the merged intervals stops one pair early.
RECURSIVE between_silences_short(_, _)
between_silences_short(merged, i) ==
    IF i > Len(merged) - 2 THEN <<>>
    ELSE (IF merged[i + 1][1] > merged[i][2]
          THEN <<[start_time |-> merged[i][2], end_time |-> merged[i + 1][1],
                  duration |-> merged[i + 1][1] - merged[i][2]]>> ELSE <<>>)
         \o between_silences_short(merged, i + 1)

\* Mutant: the silences between the merged intervals are collected last first.
RECURSIVE between_silences_rev(_, _)
between_silences_rev(merged, i) ==
    IF i > Len(merged) - 1 THEN <<>>
    ELSE between_silences_rev(merged, i + 1)
         \o (IF merged[i + 1][1] > merged[i][2]
             THEN <<[start_time |-> merged[i][2], end_time |-> merged[i + 1][1],
                     duration |-> merged[i + 1][1] - merged[i][2]]>> ELSE <<>>)

\* lines 108-119
RECURSIVE between_silences(_, _)
between_silences(merged, i) ==
    IF i > Len(merged) - 1 THEN <<>>
    ELSE (IF merged[i + 1][1] > merged[i][2]
          THEN <<silence_of(merged[i][2], merged[i + 1][1])>> ELSE <<>>)
         \o between_silences(merged, i + 1)

\* lines 122-129
trailing_silence(merged, call_end) ==
    IF Len(merged) > 0 /\ merged[Len(merged)][2] < call_end
    THEN <<silence_of(merged[Len(merged)][2], call_end)>> ELSE <<>>

silences_list(tl, order) ==
    LET merged == merged_intervals(tl, order)
    IN  leading_silence(merged, call_start_of(tl))
        \o between_silences(merged, 1)
        \o trailing_silence(merged, call_end_of(tl))

detect_silences(tl, order) ==
    IF Len(tl) = 0 THEN Raised("KeyError") ELSE Returned(silences_list(tl, order))

\* ---------------------------------------------------- calculate_metrics
\* x / total * 100 on numpy scalars: a zero total does not raise, it yields
\* nan (0/0) or an infinity.
percentage(x, total) ==
    IF total # 0 THEN [kind |-> "finite", num |-> x * 100, den |-> total]
    ELSE IF x = 0 THEN [kind |-> "nan", num |-> 0, den |-> 0]
    ELSE IF x > 0 THEN [kind |-> "inf", num |-> 0, den |-> 0]
    ELSE [kind |-> "-inf", num |-> 0, den |-> 0]

\* Mutant: the span of the call (last end - first start) is taken.
total_duration_span(tl) ==
    ColMax([i \in 1..Len(tl) |-> tl[i].end_time])
        - ColMin([i \in 1..Len(tl) |-> tl[i].start_time])

\* line 138
total_duration_of(tl) == call_end_of(tl)

\* lines 143-148: Series.sum() of the durations of one speaker's rows
speaking_time(tl, speaker) ==
    SumSeq([i \in 1..Len(tl) |-> IF tl[i].speaker = speaker THEN tl[i].duration ELSE 0])

metrics_of(tl, order) ==
    LET overlaps == overlaps_list(tl, order)
        silences == silences_list(tl, order)
        total_call_duration == total_duration_of(tl)
        total_overlap_time == SumSeq([n \in 1..Len(overlaps) |-> overlaps[n].duration])
        total_silence_time == SumSeq([n \in 1..Len(silences) |-> silences[n].duration])
        agent_time == speaking_time(tl, "Agent")
        customer_time == speaking_time(tl, "Customer")
    IN  [total_duration           |-> total_call_duration,
         total_overlap_time       |-> total_overlap_time,
         total_silence_time       |-> total_silence_time,
         overlap_percentage       |-> percentage(total_overlap_time, total_call_duration),
         silence_percentage       |-> percentage(total_silence_time, total_call_duration),
         agent_speaking_time      |-> agent_time,
         customer_speaking_time   |-> customer_time,
         agent_talk_percentage    |-> percentage(agent_time, total_call_duration),
         customer_talk_percentage |-> percentage(customer_time, total_call_duration),
         overlaps                 |-> overlaps,
         silences                 |-> silences,
         num_overlaps             |-> Len(overlaps),
         num_silences             |-> Len(silences)]

calculate_metrics(tl, order) ==
    IF Len(tl) = 0 THEN Raised("KeyError") ELSE Returned(metrics_of(tl, order))

\* ------------------------------------------------------------- actions
InitAnalyzer ==
    /\ conversation_data \in Calls
    /\ timeline_data = create_timeline(conversation_data)
    /\ init_raised = init_outcome(conversation_data)
    /\ argsort \in SortingOrders(timeline_data)
    /\ returned = [op \in Ops |-> NotCalled]

NoPrivacy ==
    /\ conversation = <<>>
    /\ privacy = NotCalled

NoPerm ==
    /\ perm_data = <<>>
    /\ perm_argsort = <<>>
    /\ perm_returned = NotCalled

\* privacy_detection_llm has not been called
NoLLM ==
    /\ conversation_ids = <<>>
    /\ batch_input = <<>>
    /\ outputs = <<>>
    /\ batch_start = 0
    /\ last_outcome = "none"
    /\ rate_limited = 0
    /\ pc = "not_called"
    /\ privacy_violated = {}

Init == InitAnalyzer /\ NoPrivacy /\ NoPerm /\ NoLLM

DetectOverlaps ==
    /\ init_raised = "none"
    /\ returned' = [returned EXCEPT !["detect_overlaps"] = detect_overlaps(timeline_data, argsort)]
    /\ timeline_data' = frame_after_sort(timeline_data, argsort)
    /\ UNCHANGED <<conversation_data, init_raised, argsort, privacyVars, permVars, llmVars>>

DetectSilences ==
    /\ init_raised = "none"
    /\ returned' = [returned EXCEPT !["detect_silences"] = detect_silences(timeline_data, argsort)]
    /\ timeline_data' = frame_after_sort(timeline_data, argsort)
    /\ UNCHANGED <<conversation_data, init_raised, argsort, privacyVars, permVars, llmVars>>

CalculateMetrics ==
    /\ init_raised = "none"
    /\ returned' = [returned EXCEPT !["calculate_metrics"] = calculate_metrics(timeline_data, argsort)]
    /\ timeline_data' = frame_after_sort(timeline_data, argsort)
    /\ UNCHANGED <<conversation_data, init_raised, argsort, privacyVars, permVars, llmVars>>

Next == DetectOverlaps \/ DetectSilences \/ CalculateMetrics

Spec == Init /\ [][Next]_vars

\* ------------------------------------ the same segments in another order
\* conv with the segments at positions i and i+1 exchanged.  Every
\* permutation is a chain of such exchanges.
SwapAdjacent(conv, i) ==
    [k \in 1..Len(conv) |-> IF k = i THEN conv[i + 1] ELSE IF k = i + 1 THEN conv[i] ELSE conv[k]]

StartColumn(conv) == [k \in 1..Len(conv) |-> conv[k].stime]

\* Two analyzers of the same build: one on a dialogue (opened by the agent;
\* the other opening is the same up to the names of the two speakers), one
\* on the same segments with two neighbours exchanged.  The sort sees only the
\* start_time column, so equal columns are put in the same order.
InitPerm ==
    /\ conversation_data \in {c \in Dialogues : Len(c) >= 2 /\ c[1].speaker = "Agent"}
    /\ timeline_data = create_timeline(conversation_data)
    /\ init_raised = init_outcome(conversation_data)
    /\ argsort \in SortingOrders(timeline_data)
    /\ returned = [op \in Ops |-> NotCalled]
    /\ \E i \in 1..(Len(conversation_data) - 1) :
          perm_data = SwapAdjacent(conversation_data, i)
    /\ perm_argsort \in SortingOrders(create_timeline(perm_data))
    /\ StartColumn(perm_data) = StartColumn(conversation_data) => perm_argsort = argsort
    /\ perm_returned = NotCalled
    /\ NoPrivacy
    /\ NoLLM

\* calculate_metrics() on the second analyzer
PermCalculateMetrics ==
    /\ init_outcome(perm_data) = "none"
    /\ perm_returned' = calculate_metrics(create_timeline(perm_data), perm_argsort)
    /\ UNCHANGED <<analyzerVars, privacyVars, perm_data, perm_argsort, llmVars>>

NextPerm == CalculateMetrics \/ PermCalculateMetrics

PermSpec == InitPerm /\ [][NextPerm]_vars

\* ------------------------------------------- PatternMatcher (privacy)
\* The texts an utterance may carry, one per way the compiled patterns can
\* match: nothing, sensitive information only, a verification phrase only,
\* and both (the SSN patterns are in both lists).
Texts == {"Hello, how are you", "Your balance is $500",
          "Please confirm your date of birth", "ssn: 123-45-6789"}

Utterance == [speaker : Speakers, text : Texts]

Transcripts == UNION {[1..n -> Utterance] : n \in 0..MaxUtts}

\* pattern.findall(text) over compiled_sensitive: the matched substrings
sensitive_matches(text) ==
    IF text = "Your balance is $500" THEN {"$500", "balance is $500"}
    ELSE IF text = "ssn: 123-45-6789" THEN {"ssn: 123-45-6789", "123-45-6789"}
    ELSE {}

\* the patterns of compiled_verification that pattern.search(text) finds
verification_matches(text) ==
    IF text = "Please confirm your date of birth" THEN {"date of birth"}
    ELSE IF text = "ssn: 123-45-6789" THEN {"ssn"}
    ELSE {}

\* "agent" in speaker.lower()
is_agent(speaker) == speaker = "Agent"

\* lines 182-198: the loop over the utterances, from utterance i on, with
\* the accumulated state acc
RECURSIVE privacy_loop(_, _, _)
privacy_loop(conv, i, acc) ==
    IF i > Len(conv) THEN acc
    ELSE IF is_agent(conv[i].speaker)
    THEN LET sens == sensitive_matches(conv[i].text)
             ver == verification_matches(conv[i].text)
         IN  privacy_loop(conv, i + 1,
                [sensitive_info_shared  |-> acc.sensitive_info_shared \cup sens,
                 agent_shared_sensitive |-> acc.agent_shared_sensitive \/ sens # {},
                 verification_attempted |-> acc.verification_attempted \/ ver # {},
                 verification_methods   |-> acc.verification_methods \cup ver])
    ELSE privacy_loop(conv, i + 1, acc)

\* line 200
violation_of(acc) == acc.agent_shared_sensitive /\ ~acc.verification_attempted

detect_privacy_violation(conv) ==
    LET acc == privacy_loop(conv, 1,
                   [sensitive_info_shared  |-> {},
                    agent_shared_sensitive |-> FALSE,
                    verification_attempted |-> FALSE,
                    verification_methods   |-> {}])
    IN  Returned([agent_violated_privacy |-> violation_of(acc),
                  sensitive_info_shared  |-> acc.sensitive_info_shared,
                  verification_attempted |-> acc.verification_attempted,
                  verification_methods   |-> acc.verification_methods])

\* privacy_detection_pattern, lines 242-244: the call gets a row in the
\* violations frame exactly when the result says agent_violated_privacy
reported_violation(result) == result.agent_violated_privacy

NoAnalyzer ==
    /\ conversation_data = <<>>
    /\ timeline_data = <<>>
    /\ init_raised = "none"
    /\ argsort = <<>>
    /\ returned = [op \in Ops |-> NotCalled]

InitPrivacy ==
    /\ NoAnalyzer
    /\ NoPerm
    /\ NoLLM
    /\ conversation \in Transcripts
    /\ privacy = NotCalled

DetectPrivacyViolation ==
    /\ privacy' = detect_privacy_violation(conversation)
    /\ UNCHANGED <<analyzerVars, conversation, permVars, llmVars>>

NextPrivacy == DetectPrivacyViolation

PrivacySpec == InitPrivacy /\ [][NextPrivacy]_vars

\* ----------------------------- privacy_detection_llm (the batching loop)
\* profanity_detection_llm (lines 331-367) runs the same loop, statement for
\* statement, and pairs outputs[idx] with conversation_ids[idx] in the same way.
batch_size == 5

LLMOutcomes == {"success", "rate_limit", "error"}

\* privacy_fill_prompt(clean_conversation(conversations[conv_id])): the
\* prompt is kept as the conversation it was filled from.
privacy_fill_prompt(conv_id) == [conversation |-> conv_id]

\* batch_input[i : i + batch_size]
batch_slice(prompts, start) ==
    SubSeq(prompts, start + 1, Min2(start + batch_size, Len(prompts)))

\* One output of structured_llm.batch: the verdict of the model on a prompt
\* (violation: agent_violated_privacy and not verification_attempted), with
\* the prompt it answers.
llm_output(prompt, verdict) == [prompt |-> prompt, violation |-> verdict]

\* Mutant: the loop moves on after every outcome.
index_after_skip(outcome, start) == start + batch_size

\* lines 313-318: the value of i after a batch call with the given outcome
index_after(outcome, start) ==
    IF outcome = "rate_limit" THEN start ELSE start + batch_size

\* lines 319-322: the items of privacy_violated after the loop over outputs
privacy_items(ids, outs) ==
    {[id |-> ids[idx], sensitive_info |-> outs[idx].prompt] :
        idx \in {k \in 1..Len(outs) : outs[k].violation}}

\* State at line 310, before the first test of the while loop.
InitLLM ==
    /\ NoAnalyzer
    /\ NoPrivacy
    /\ NoPerm
    /\ \E n \in 0..MaxConvs : conversation_ids = [k \in 1..n |-> k]
    /\ batch_input = [k \in 1..Len(conversation_ids) |->
                          privacy_fill_prompt(conversation_ids[k])]
    /\ outputs = <<>>
    /\ batch_start = 0
    /\ last_outcome = "none"
    /\ rate_limited = 0
    /\ pc = "batching"
    /\ privacy_violated = {}

\* lines 310-314: the batch call returns one output per prompt of the slice
BatchSucceeds ==
    /\ pc = "batching"
    /\ batch_start < Len(batch_input)
    /\ LET slice == batch_slice(batch_input, batch_start)
       IN  \E verdicts \in [1..Len(slice) -> BOOLEAN] :
              outputs' = outputs \o [k \in 1..Len(slice) |->
                                        llm_output(slice[k], verdicts[k])]
    /\ batch_start' = index_after("success", batch_start)
    /\ last_outcome' = "success"
    /\ UNCHANGED <<conversation_ids, batch_input, rate_limited, pc, privacy_violated>>
    /\ UNCHANGED <<analyzerVars, privacyVars, permVars>>

\* lines 315-316: RateLimitError, sleep, the loop tests again
BatchRateLimited ==
    /\ pc = "batching"
    /\ batch_start < Len(batch_input)
    /\ rate_limited < MaxRateLimits
    /\ rate_limited' = rate_limited + 1
    /\ batch_start' = index_after("rate_limit", batch_start)
    /\ last_outcome' = "rate_limit"
    /\ UNCHANGED <<conversation_ids, batch_input, outputs, pc, privacy_violated>>
    /\ UNCHANGED <<analyzerVars, privacyVars, permVars>>

\* lines 317-318: any other exception
BatchFails ==
    /\ pc = "batching"
    /\ batch_start < Len(batch_input)
    /\ batch_start' = index_after("error", batch_start)
    /\ last_outcome' = "error"
    /\ UNCHANGED <<conversation_ids, batch_input, outputs, rate_limited, pc, privacy_violated>>
    /\ UNCHANGED <<analyzerVars, privacyVars, permVars>>

\* lines 310, 320-328: the while loop ends, the outputs are paired with the
\* conversation ids by position and the function returns
CollectViolations ==
    /\ pc = "batching"
    /\ ~(batch_start < Len(batch_input))
    /\ privacy_violated' = privacy_items(conversation_ids, outputs)
    /\ pc' = "returned"
    /\ UNCHANGED <<conversation_ids, batch_input, outputs, batch_start, last_outcome,
                   rate_limited>>
    /\ UNCHANGED <<analyzerVars, privacyVars, permVars>>

NextLLM == BatchSucceeds \/ BatchRateLimited \/ BatchFails \/ CollectViolations

\* The function keeps running: a step that can be taken is taken.  The API
\* answers RateLimitError at most MaxRateLimits times.
LLMSpec == InitLLM /\ [][NextLLM]_vars /\ WF_vars(NextLLM)

\* ===================================================================
\* Properties
\* ===================================================================
Called(op) == returned[op].status # "not_called"
Gave(op) == returned[op].status = "returned"

\* The span of the call, read from the input itself.
CallStart == ColMin([i \in 1..Len(conversation_data) |-> conversation_data[i].stime])
CallEnd == ColMax([i \in 1..Len(conversation_data) |-> conversation_data[i].etime])

\* The merged speech intervals detect_silences builds for the stored timeline.
Merged == merged_intervals(timeline_data, argsort)

\* How many of the merged intervals m and of the silences s cover the unit
\* range [t, t+1].  All end points are integers, so every positive-length
\* range is a union of parts of unit ranges with the same covering.
CoverCount(m, s, t) ==
    Cardinality({k \in 1..Len(m) : m[k][1] <= t /\ t + 1 <= m[k][2]})
    + Cardinality({k \in 1..Len(s) : s[k].start_time <= t /\ t + 1 <= s[k].end_time})

PointCovered(m, s, t) ==
    \/ \E k \in 1..Len(m) : m[k][1] <= t /\ t <= m[k][2]
    \/ \E k \in 1..Len(s) : s[k].start_time <= t /\ t <= s[k].end_time

\* C1: for a valid call, the merged speech intervals and the silences that
\* detect_silences returned cover [call_start, call_end] exactly: every point
\* of the span lies in one of them, every unit range of the span lies in
\* exactly one of them, and none of them reaches outside the span.
C1_Partition ==
    (ValidCall(conversation_data) /\ Gave("detect_silences")) =>
        LET s == returned["detect_silences"].value
            m == Merged
            cs == CallStart
            ce == CallEnd
        IN  /\ \A t \in cs..ce : PointCovered(m, s, t)
            /\ \A t \in cs..(ce - 1) : CoverCount(m, s, t) = 1
            /\ \A k \in 1..Len(m) : cs <= m[k][1] /\ m[k][1] <= m[k][2] /\ m[k][2] <= ce
            /\ \A k \in 1..Len(s) :
                  cs <= s[k].start_time /\ s[k].start_time <= s[k].end_time
                      /\ s[k].end_time <= ce

\* A valid call with two separate speech intervals and a silence between them.
C1_Witness ==
    /\ ValidCall(conversation_data)
    /\ Gave("detect_silences")
    /\ Len(returned["detect_silences"].value) >= 1
    /\ Len(Merged) >= 2
    /\ Len(conversation_data) = 3

\* The overlaps detect_overlaps returned are those of overlap_pairs, in order.
PairsMatch ==
    LET ov == returned["detect_overlaps"].value
        pr == overlap_pairs(timeline_data, argsort)
    IN  /\ Len(ov) = Len(pr)
        /\ \A n \in 1..Len(ov) :
              /\ pr[n][1] # pr[n][2]
              /\ ov[n] = overlap_of(timeline_data[pr[n][1]], timeline_data[pr[n][2]])

\* C2: no overlap that detect_overlaps returned comes from two segments one
\* of which ends at or before the start of the other (end1 <= start2).
C2_NoFalseOverlap ==
    Gave("detect_overlaps") =>
        LET pr == overlap_pairs(timeline_data, argsort) IN
        /\ PairsMatch
        /\ \A n \in 1..Len(pr) :
              LET a == conversation_data[pr[n][1]]
                  b == conversation_data[pr[n][2]]
              IN  ~(a.etime <= b.stime) /\ ~(b.etime <= a.stime)

\* Two segments share a start, one of them is a point at that start (so it
\* ends where the other starts), and detect_overlaps has returned.
C2_Witness ==
    /\ Gave("detect_overlaps")
    /\ \E i, j \in 1..Len(conversation_data) :
          /\ i # j
          /\ conversation_data[i].etime = conversation_data[j].stime
          /\ conversation_data[i].stime = conversation_data[i].etime
          /\ conversation_data[j].etime > conversation_data[j].stime
    /\ \E i, j \in 1..Len(conversation_data) :
          /\ i # j
          /\ conversation_data[i].etime = conversation_data[j].stime
          /\ conversation_data[i].etime > conversation_data[i].stime
          /\ conversation_data[j].etime > conversation_data[j].stime

\* C3: the duration of every overlap detect_overlaps returned is at most the
\* duration (end - start) of each of the two segments it comes from.
C3_DurationBound ==
    Gave("detect_overlaps") =>
        LET pr == overlap_pairs(timeline_data, argsort) IN
        /\ PairsMatch
        /\ \A n \in 1..Len(returned["detect_overlaps"].value) :
              LET a == conversation_data[pr[n][1]]
                  b == conversation_data[pr[n][2]]
                  d == returned["detect_overlaps"].value[n].duration
              IN  d <= a.etime - a.stime /\ d <= b.etime - b.stime

\* Two overlaps have been returned, one of them shorter than one of its
\* segments and exactly as long as the other.
C3_Witness ==
    /\ Gave("detect_overlaps")
    /\ Len(returned["detect_overlaps"].value) = 2
    /\ \E n \in 1..Len(returned["detect_overlaps"].value) :
          LET a == conversation_data[overlap_pairs(timeline_data, argsort)[n][1]]
              b == conversation_data[overlap_pairs(timeline_data, argsort)[n][2]]
              d == returned["detect_overlaps"].value[n].duration
          IN  d < a.etime - a.stime /\ d = b.etime - b.stime

\* Total length of the merged speech intervals.
UniqueSpeechTime == LET m == Merged IN SumSeq([k \in 1..Len(m) |-> m[k][2] - m[k][1]])

\* C4 as claimed: for a valid call, total_silence_time plus the total length
\* of the merged speech intervals equals total_duration.
C4_Original ==
    (ValidCall(conversation_data) /\ Gave("calculate_metrics")) =>
        returned["calculate_metrics"].value.total_silence_time + UniqueSpeechTime
            = returned["calculate_metrics"].value.total_duration

\* C4 as amended: for a valid call, total_silence_time plus the total length
\* of the merged speech intervals equals total_duration - call_start (the sum
\* is the span call_end - call_start, total_duration is call_end), so it
\* equals total_duration exactly when the earliest segment starts at 0.
C4_SilencePlusSpeech ==
    (ValidCall(conversation_data) /\ Gave("calculate_metrics")) =>
        LET m == returned["calculate_metrics"].value
            sum == m.total_silence_time + UniqueSpeechTime
        IN  /\ m.total_duration = CallEnd
            /\ sum = m.total_duration - CallStart
            /\ (sum = m.total_duration) <=> (CallStart = 0)

\* Metrics of a valid call that starts after 0 and has a silence in it.
C4_Witness ==
    /\ ValidCall(conversation_data)
    /\ Gave("calculate_metrics")
    /\ CallStart > 0
    /\ returned["calculate_metrics"].value.total_silence_time > 0

\* C5: no call of detect_overlaps, detect_silences or calculate_metrics
\* changes the stored conversation or timeline, and an operation that has
\* been called before gives the same outcome again.
C5_Pure ==
    [][/\ conversation_data' = conversation_data
       /\ timeline_data' = timeline_data
       /\ \A op \in Ops : Called(op) => SameOutcome(returned'[op], returned[op])]_vars

\* All three operations have returned on a call whose segments are not in
\* start order and that has an overlap and a silence.
C5_Witness ==
    /\ \A op \in Ops : Gave(op)
    /\ \E i \in 1..(Len(timeline_data) - 1) :
          timeline_data[i].start_time > timeline_data[i + 1].start_time
    /\ Len(returned["detect_overlaps"].value) >= 1
    /\ Len(returned["detect_silences"].value) >= 1

\* C6 as claimed: from an empty call or a call with a segment whose end is
\* before its start, construction raises InvalidInputError and no operation
\* ever returns a result.
C6_Original ==
    ~ValidCall(conversation_data) =>
        /\ init_raised = "InvalidInputError"
        /\ \A op \in Ops : ~Gave(op)

PercentagesOf(m) ==
    {m.overlap_percentage, m.silence_percentage,
     m.agent_talk_percentage, m.customer_talk_percentage}

\* C7 as claimed: when total_duration is 0, calculate_metrics either raises
\* DivisionUndefinedError or returns 0 for every percentage.
C7_Original ==
    (ValidCall(conversation_data) /\ CallEnd = 0 /\ Called("calculate_metrics")) =>
        \/ returned["calculate_metrics"].status = "DivisionUndefinedError"
        \/ /\ Gave("calculate_metrics")
           /\ \A q \in PercentagesOf(returned["calculate_metrics"].value) :
                 q.kind = "finite" /\ q.num = 0

\* C10 as claimed: every overlap detect_overlaps returned names two distinct
\* speakers, and both of its segments cover [start_time, end_time].
C10_Original ==
    (ValidCall(conversation_data) /\ Gave("detect_overlaps")) =>
        \A n \in 1..Len(returned["detect_overlaps"].value) :
            LET o == returned["detect_overlaps"].value[n]
                a == conversation_data[overlap_pairs(timeline_data, argsort)[n][1]]
                b == conversation_data[overlap_pairs(timeline_data, argsort)[n][2]]
            IN  /\ o.speakers[1] # o.speakers[2]
                /\ a.stime <= o.start_time /\ o.end_time <= a.etime
                /\ b.stime <= o.start_time /\ o.end_time <= b.etime

AgentDiscloses(i) ==
    is_agent(conversation[i].speaker) /\ sensitive_matches(conversation[i].text) # {}
AgentVerifies(i) ==
    is_agent(conversation[i].speaker) /\ verification_matches(conversation[i].text) # {}

\* The agent discloses sensitive information in an utterance that comes
\* before every agent utterance that verifies the caller's identity.
DisclosureBeforeVerification ==
    \E i \in 1..Len(conversation) :
        /\ AgentDiscloses(i)
        /\ \A j \in 1..Len(conversation) : AgentVerifies(j) => i < j

\* C8 as claimed: a call in which the agent discloses sensitive information
\* before any agent utterance that verifies the caller is reported as a
\* privacy violation.
C8_Original ==
    (privacy.status = "returned" /\ DisclosureBeforeVerification) =>
        reported_violation(privacy.value)

BothMetrics == Gave("calculate_metrics") /\ perm_returned.status = "returned"

\* The part of the metrics that does not come from detect_overlaps.
SilenceAndTotals(m) ==
    [silences                 |-> m.silences,
     num_silences             |-> m.num_silences,
     total_duration           |-> m.total_duration,
     total_silence_time       |-> m.total_silence_time,
     silence_percentage       |-> m.silence_percentage,
     agent_speaking_time      |-> m.agent_speaking_time,
     customer_speaking_time   |-> m.customer_speaking_time,
     agent_talk_percentage    |-> m.agent_talk_percentage,
     customer_talk_percentage |-> m.customer_talk_percentage]

\* start, end and duration of the overlaps, and their totals.
OverlapTimes(m) ==
    [overlaps           |-> [n \in 1..Len(m.overlaps) |->
                                <<m.overlaps[n].start_time, m.overlaps[n].end_time,
                                  m.overlaps[n].duration>>],
     num_overlaps       |-> m.num_overlaps,
     total_overlap_time |-> m.total_overlap_time,
     overlap_percentage |-> m.overlap_percentage]

DistinctStarts ==
    \A i, j \in 1..Len(conversation_data) :
        i # j => conversation_data[i].stime # conversation_data[j].stime

\* C9 as claimed: two analyzers given the same segments in different orders
\* return the same overlaps (start, end, duration), the same silences and
\* the same totals.
C9_Original ==
    BothMetrics =>
        /\ SilenceAndTotals(perm_returned.value)
              = SilenceAndTotals(returned["calculate_metrics"].value)
        /\ OverlapTimes(perm_returned.value)
              = OverlapTimes(returned["calculate_metrics"].value)

\* C9 as amended: two analyzers given the same segments in different orders
\* return the same silences, total_duration, total_silence_time and speaking
\* times; and when no two segments have the same start they return the same
\* overlaps (speakers included) and overlap totals as well.
C9_OrderIndependent ==
    BothMetrics =>
        /\ SilenceAndTotals(perm_returned.value)
              = SilenceAndTotals(returned["calculate_metrics"].value)
        /\ DistinctStarts => perm_returned.value = returned["calculate_metrics"].value

\* Three segments with distinct starts, given in two different orders that
\* are both out of start order, with an overlap among them.
C9_Witness ==
    /\ BothMetrics
    /\ DistinctStarts
    /\ Len(conversation_data) = 3
    /\ perm_data # conversation_data
    /\ conversation_data[1].stime > conversation_data[2].stime
    /\ perm_data[2].stime > perm_data[3].stime
    /\ returned["calculate_metrics"].value.num_overlaps >= 1

\* The input segments in the order the sort returned them.
SortedInput == [k \in 1..Len(conversation_data) |-> conversation_data[argsort[k]]]

\* The condition of C11 on a pair of consecutive segments.
Qualifies(cur, nxt) ==
    /\ cur.etime > nxt.stime
    /\ Min2(cur.etime, nxt.etime) - Max2(cur.stime, nxt.stime) > 0

\* C11: detect_overlaps returns exactly one overlap for each pair of
\* consecutive segments (current, next) in start-sorted order with
\* current.end > next.start and min(ends) - max(starts) > 0, in that order,
\* with start = max(starts), end = min(ends), duration = end - start and the
\* two speakers; it returns nothing else, and every overlap has end > start.
C11_ExactlyAdjacentPairs ==
    Gave("detect_overlaps") =>
        LET df == SortedInput
            ov == returned["detect_overlaps"].value
            Q == {k \in 1..(Len(df) - 1) : Qualifies(df[k], df[k + 1])}
        IN  /\ Len(ov) = Cardinality(Q)
            /\ \A k \in Q :
                  LET o == ov[Cardinality({j \in Q : j <= k})]
                  IN  /\ o.start_time = Max2(df[k].stime, df[k + 1].stime)
                      /\ o.end_time = Min2(df[k].etime, df[k + 1].etime)
                      /\ o.duration = o.end_time - o.start_time
                      /\ o.speakers = <<df[k].speaker, df[k + 1].speaker>>
            /\ \A n \in 1..Len(ov) : ov[n].end_time > ov[n].start_time

\* Three segments: the first pair in sorted order qualifies, the second has
\* current.end > next.start but a common range of length zero; one overlap
\* has been returned.
C11_Witness ==
    /\ Gave("detect_overlaps")
    /\ Len(conversation_data) = 3
    /\ Qualifies(SortedInput[1], SortedInput[2])
    /\ SortedInput[2].etime > SortedInput[3].stime
    /\ ~Qualifies(SortedInput[2], SortedInput[3])
    /\ Len(returned["detect_overlaps"].value) = 1

\* The segment lies inside the interval iv = <<start, end>>.
InsideInterval(seg, iv) == iv[1] <= seg.stime /\ seg.etime <= iv[2]

\* C12: for a call of segments (end >= start), the merged intervals that
\* detect_silences builds are ordered and pairwise disjoint, consecutive ones
\* are separated by a strictly positive gap, every input segment lies inside
\* exactly one of them, each of them is made of segments only (it starts at
\* a segment's start, ends at a segment's end and every unit range of it is
\* spoken in), and every silence returned has duration > 0.
C12_MergeMaximal ==
    (ValidCall(conversation_data) /\ Gave("detect_silences")) =>
        LET m == Merged
            s == returned["detect_silences"].value
            segs == 1..Len(conversation_data)
        IN  /\ \A k \in 1..Len(m) : m[k][1] <= m[k][2]
            /\ \A k \in 1..(Len(m) - 1) : m[k][2] < m[k + 1][1]
            /\ \A i \in segs :
                  Cardinality({k \in 1..Len(m) : InsideInterval(conversation_data[i], m[k])}) = 1
            /\ \A k \in 1..Len(m) :
                  /\ \E i \in segs : conversation_data[i].stime = m[k][1]
                  /\ \E i \in segs : conversation_data[i].etime = m[k][2]
                  /\ \A t \in m[k][1]..(m[k][2] - 1) :
                        \E i \in segs : conversation_data[i].stime <= t
                                            /\ t + 1 <= conversation_data[i].etime
            /\ \A n \in 1..Len(s) : s[n].duration > 0

\* Two merged intervals with a silence between them, one of which absorbed
\* a segment that starts exactly where an earlier segment ends.
C12_Witness ==
    /\ ValidCall(conversation_data)
    /\ Gave("detect_silences")
    /\ Len(Merged) = 2
    /\ Len(returned["detect_silences"].value) = 1
    /\ \E i, j \in 1..Len(conversation_data) :
          /\ conversation_data[i].stime < conversation_data[j].stime
          /\ conversation_data[i].etime = conversation_data[j].stime

\* The start_time of the elements of seq never decreases.
AscendingStarts(seq) ==
    \A n \in 1..(Len(seq) - 1) : seq[n].start_time <= seq[n + 1].start_time

\* C13: the overlaps detect_overlaps returned are in ascending order of
\* start_time (for any input), and so are the silences detect_silences
\* returned for a call of segments with end >= start.
C13_AscendingOutput ==
    /\ Gave("detect_overlaps") => AscendingStarts(returned["detect_overlaps"].value)
    /\ (ValidCall(conversation_data) /\ Gave("detect_silences")) =>
           AscendingStarts(returned["detect_silences"].value)

\* Both operations have returned on a call given out of start order, and
\* two silences came back.
C13_Witness ==
    /\ ValidCall(conversation_data)
    /\ Gave("detect_overlaps")
    /\ Gave("detect_silences")
    /\ Len(returned["detect_silences"].value) = 2
    /\ \E i \in 1..(Len(conversation_data) - 1) :
          conversation_data[i].stime > conversation_data[i + 1].stime

\* The order a stable sort by start_time returns: rows with equal start_time
\* stay in input order.
StableOrder(df) ==
    CHOOSE p \in SortingOrders(df) :
        \A k \in 1..(Len(df) - 1) :
            df[p[k]].start_time = df[p[k + 1]].start_time => p[k] < p[k + 1]

CommonLength(a, b) == Min2(a.etime, b.etime) - Max2(a.stime, b.stime)

\* Three segments a, b, c in sorted order: b is nested inside a, a and c
\* have a positive-length range in common, b and c do not.
NestedGap(df) ==
    /\ Len(df) = 3
    /\ df[1].stime <= df[2].stime /\ df[2].etime <= df[1].etime
    /\ CommonLength(df[1], df[3]) > 0
    /\ CommonLength(df[2], df[3]) <= 0

\* C15: detect_overlaps compares only the pairs that are adjacent in sorted
\* order: no overlap it returned comes from two segments with another
\* between them, and in a valid call a, b, c where b is nested inside a and
\* c intersects a but not b, at most the overlap of (a, b) is returned and
\* nothing is returned for the range a and c have in common.
C15_AdjacentOnly ==
    (ValidCall(conversation_data) /\ Gave("detect_overlaps")) =>
        LET df == SortedInput
            ov == returned["detect_overlaps"].value
            pr == overlap_pairs(timeline_data, argsort)
        IN  /\ PairsMatch
            /\ \A n \in 1..Len(pr) : \A i, j \in 1..Len(df) :
                  (pr[n] = <<argsort[i], argsort[j]>>) => j = i + 1
            /\ NestedGap(df) =>
                  /\ Len(ov) <= 1
                  /\ \A n \in 1..Len(ov) :
                        /\ ov[n].start_time = Max2(df[1].stime, df[2].stime)
                        /\ ov[n].end_time = df[2].etime
                        /\ ov[n].end_time <= df[3].stime

\* The gap itself: a valid call a, b, c with b nested inside a and of
\* positive length, c intersecting a after b; detect_overlaps returned the
\* overlap of (a, b) only.
C15_Witness ==
    /\ ValidCall(conversation_data)
    /\ Gave("detect_overlaps")
    /\ NestedGap(SortedInput)
    /\ SortedInput[2].etime > SortedInput[2].stime
    /\ Len(returned["detect_overlaps"].value) = 1

\* C16 as claimed: for a valid call the first merged interval starts at
\* call_start, the last one ends at call_end, and every silence returned
\* has start_time > call_start and end_time < call_end.
C16_Original ==
    (ValidCall(conversation_data) /\ Gave("detect_silences")) =>
        LET m == Merged
            s == returned["detect_silences"].value
        IN  /\ m[1][1] = CallStart
            /\ m[Len(m)][2] = CallEnd
            /\ \A n \in 1..Len(s) :
                  s[n].start_time > CallStart /\ s[n].end_time < CallEnd

\* C16 as amended: for a valid call the first merged interval starts at
\* call_start and the last one ends at call_end, so no leading or trailing
\* silence is emitted: the silences returned are, in order, the gaps between
\* consecutive merged intervals, with start_time >= call_start and
\* end_time <= call_end; start_time > call_start unless the first merged
\* interval is a single instant, end_time < call_end unless the last one is.
C16_NoEdgeSilence ==
    (ValidCall(conversation_data) /\ Gave("detect_silences")) =>
        LET m == Merged
            s == returned["detect_silences"].value
        IN  /\ m[1][1] = CallStart
            /\ m[Len(m)][2] = CallEnd
            /\ Len(s) = Len(m) - 1
            /\ \A n \in 1..Len(s) :
                  /\ s[n].start_time = m[n][2]
                  /\ s[n].end_time = m[n + 1][1]
                  /\ s[n].start_time >= CallStart /\ s[n].end_time <= CallEnd
                  /\ m[1][2] > m[1][1] => s[n].start_time > CallStart
                  /\ m[Len(m)][2] > m[Len(m)][1] => s[n].end_time < CallEnd

\* A valid call that starts after 0 (so that a silence from time 0 could have
\* been expected) and has a silence between two speech intervals.
C16_Witness ==
    /\ ValidCall(conversation_data)
    /\ Gave("detect_silences")
    /\ CallStart > 0
    /\ Len(Merged) >= 2
    /\ Len(returned["detect_silences"].value) >= 1

\* C17 as claimed: at every point of privacy_detection_llm, outputs[idx] was
\* produced from the prompt of conversation_ids[idx] for every idx, and every
\* item of privacy_violated comes from the output for the prompt of its id.
C17_Original ==
    /\ \A idx \in 1..Len(outputs) :
          outputs[idx].prompt = privacy_fill_prompt(conversation_ids[idx])
    /\ \A item \in privacy_violated :
          item.sensitive_info = privacy_fill_prompt(item.id)

\* C18: a batch call that ends in RateLimitError leaves the index and the
\* outputs as they were (the same batch is called again), a batch call that
\* ends in success or in another exception advances the index by
\* batch_size = 5; and with at most MaxRateLimits RateLimitError answers the
\* loop ends and the function returns with the index >= the number of prompts.
C18_RetryThenTerminate ==
    /\ [][(pc = "batching" /\ batch_start < Len(batch_input)) =>
             /\ last_outcome' \in LLMOutcomes
             /\ last_outcome' = "rate_limit" =>
                    batch_start' = batch_start /\ outputs' = outputs
             /\ last_outcome' # "rate_limit" =>
                    batch_start' = batch_start + batch_size]_vars
    /\ <>(pc = "returned" /\ batch_start >= Len(batch_input))

\* The function has returned after a run over more than one batch in which
\* the API answered RateLimitError, one batch succeeded and one was given up.
C18_Witness ==
    /\ pc = "returned"
    /\ batch_start >= Len(batch_input)
    /\ Len(batch_input) > batch_size
    /\ rate_limited >= 1
    /\ Len(outputs) > 0
    /\ Len(outputs) < Len(batch_input)

====
